---- MODULE Spec2Model ----
(***************************************************************************)
(* A model of the satisfiability checker (solver.satisfiable and its       *)
(* checks) and of the source-manager adapter (smAdapter: version cache,    *)
(* pairing, authoritative match / matchesAny / intersect, version          *)
(* sorters) of the vsolver package.                                        *)
(*                                                                         *)
(* Three specifications share the variables:                               *)
(*   Spec       the solver: the outer loop changes the selection and the   *)
(*              names, satisfiable is called on a candidate atom;          *)
(*   SpecSMA    the adapter: listVersions, pairVersion, pairRevision,      *)
(*              matches, matchesAny and intersect against a source manager *)
(*              that may answer or fail;                                   *)
(*   SpecSort   the two version sorters' Less on a slice of two versions.  *)
(***************************************************************************)
EXTENDS Integers, Sequences, FiniteSets, TLC

VARIABLES
    names,      \* solver.names: LocalName -> network name (a set of pairs)
    deps,       \* selection.deps: the Dependency edges pushed so far, in order
    selected,   \* selection: the atoms selected so far
    failed,     \* the identifiers marked by solver.fail
    res,        \* the last return of satisfiable, with what the call did
    sm,         \* the source manager's present answer to ListVersions
    vlists,     \* smAdapter.vlists: the per-solve version cache
    sortdown,   \* smAdapter.sortdown
    args,       \* the operands of the adapter operation under study
    out,        \* the last return of an adapter operation
    vs,         \* the slice handed to a version sorter
    less        \* what the sorters' Less answered on vs

vars == <<names, deps, selected, failed, res, sm, vlists, sortdown, args, out,
          vs, less>>

solverVars == <<names, deps, selected, failed, res>>
smaVars == <<sm, vlists, sortdown, args, out>>
sortVars == <<vs, less>>

----------------------------------------------------------------------------
(* Bounds of the model.                                                    *)

MaxMajor == 2       \* semver major numbers are 1..MaxMajor
MaxSelDeps == 2     \* edges the outer loop pushes onto the selection
MaxDeps == 2        \* dependencies a candidate atom declares
MaxVList == 2       \* versions the source manager lists for a project

----------------------------------------------------------------------------
(* Values: versions and constraints.                                       *)

Revs == {"r1", "r2"}

Revision(r) == [t |-> "rev", r |-> r]
branchVersion(s) == [t |-> "branch", s |-> s]
plainVersion(s) == [t |-> "plain", s |-> s]
\* pre = 0: no prerelease; pre > 0: a prerelease, ordered by pre
semVersion(maj, pre) == [t |-> "semver", maj |-> maj, pre |-> pre]
versionPair(v, r) == [t |-> "pair", v |-> v, r |-> r]
versionTypeUnion(s) == [t |-> "union", vs |-> s]

any == [t |-> "any"]
none == [t |-> "none"]
\* a semver range, by the major numbers it admits
semverConstraint(ok) == [t |-> "range", ok |-> ok]

IsUnpaired(v) == v.t \in {"branch", "plain", "semver"}
IsPaired(v) == v.t = "pair"
IsRevision(v) == v.t = "rev"
IsVersion(c) == c.t \in {"rev", "branch", "plain", "semver", "pair", "union"}

\* PairedVersion.Underlying
Underlying(p) == Revision(p.r)

----------------------------------------------------------------------------
(* The basic version algebra: Matches, MatchesAny, Intersect of every      *)
(* variant but versionTypeUnion, on operands that are no union.            *)

rangeAdmits(c, v) ==
    \/ v.t = "semver" /\ v.maj \in c.ok
    \/ v.t = "pair" /\ v.v.t = "semver" /\ v.v.maj \in c.ok

atomMatches(c, v) ==
    CASE c.t = "any" -> TRUE
      [] c.t = "none" -> FALSE
      [] c.t = "range" -> rangeAdmits(c, v)
      [] c.t = "rev" -> \/ v.t = "rev" /\ v.r = c.r
                        \/ v.t = "pair" /\ v.r = c.r
      [] c.t = "pair" -> \/ v.t = "rev" /\ v.r = c.r
                         \/ v.t = "pair" /\ v.r = c.r
                         \/ IsUnpaired(v) /\ v = c.v
      [] OTHER -> \/ v = c
                  \/ v.t = "pair" /\ v.v = c

atomIntersect(c1, c2) ==
    CASE c1.t = "none" \/ c2.t = "none" -> none
      [] c1.t = "any" -> c2
      [] c2.t = "any" -> c1
      [] c1.t = "range" /\ c2.t = "range" ->
            IF c1.ok \cap c2.ok = {} THEN none
            ELSE semverConstraint(c1.ok \cap c2.ok)
      [] c1.t = "range" -> IF rangeAdmits(c1, c2) THEN c2 ELSE none
      [] c2.t = "range" -> IF rangeAdmits(c2, c1) THEN c1 ELSE none
      [] OTHER ->
            IF ~atomMatches(c1, c2) THEN none
            ELSE IF c2.t = "pair" THEN c2 ELSE c1

atomMatchesAny(c1, c2) == atomIntersect(c1, c2) # none

----------------------------------------------------------------------------
(* versionTypeUnion: a version and a constraint, matched member by member. *)
(* The members of a union are the versions pairRevision and vtypeUnion     *)
(* gather, never unions: a member's method is the basic one.               *)

\* the first element of the sequence s that is not none, else none
RECURSIVE firstNotNone(_)
firstNotNone(s) ==
    IF s = <<>> THEN none
    ELSE IF Head(s) # none THEN Head(s) ELSE firstNotNone(Tail(s))

\* the pairs (i, j) of a double loop over 1..n and 1..m, outer index first
loopPairs(n, m) == [k \in 1..(n * m) |-> <<((k - 1) \div m) + 1, ((k - 1) % m) + 1>>]

versionTypeUnionMatches(av, v) ==
    IF v.t = "union"
    THEN \E i \in 1..Len(av.vs) : \E j \in 1..Len(v.vs) :
            atomMatches(av.vs[i], v.vs[j])
    ELSE \E i \in 1..Len(av.vs) : atomMatches(av.vs[i], v)

versionTypeUnionMatchesAny(av, c) ==
    IF c.t = "union"
    THEN \E i \in 1..Len(av.vs) : \E j \in 1..Len(c.vs) :
            atomMatchesAny(av.vs[i], c.vs[j])
    ELSE \E i \in 1..Len(av.vs) : atomMatchesAny(av.vs[i], c)

\* versionTypeUnion.Intersect, were it to give up on a union operand
versionTypeUnionIntersect_skipUnion(av, c) ==
    IF c.t = "union" THEN none
    ELSE firstNotNone([i \in 1..Len(av.vs) |-> atomIntersect(av.vs[i], c)])

versionTypeUnionIntersect(av, c) ==
    IF c.t = "union"
    THEN LET ij == loopPairs(Len(av.vs), Len(c.vs))
         IN firstNotNone([k \in 1..Len(ij) |->
                atomIntersect(av.vs[ij[k][1]], c.vs[ij[k][2]])])
    ELSE firstNotNone([i \in 1..Len(av.vs) |-> atomIntersect(av.vs[i], c)])

\* c.Matches(v): the method of c's variant
Matches(c, v) ==
    IF c.t = "union" THEN versionTypeUnionMatches(c, v)
    ELSE IF v.t = "union" THEN \E j \in 1..Len(v.vs) : atomMatches(c, v.vs[j])
    ELSE atomMatches(c, v)

\* c1.Intersect(c2): the method of c1's variant
Intersect(c1, c2) ==
    IF c1.t = "union" THEN versionTypeUnionIntersect(c1, c2)
    ELSE IF c2.t = "union" THEN versionTypeUnionIntersect(c2, c1)
    ELSE atomIntersect(c1, c2)

\* c1.MatchesAny(c2): the method of c1's variant
MatchesAny(c1, c2) ==
    IF c1.t = "union" THEN versionTypeUnionMatchesAny(c1, c2)
    ELSE IF c2.t = "union" THEN versionTypeUnionMatchesAny(c2, c1)
    ELSE atomMatchesAny(c1, c2)

----------------------------------------------------------------------------
(* The version sorters.                                                    *)

\* the strings of the model in lexicographic order
StringOrder == <<"dev", "master", "r1", "r2", "stable">>
strIndex(s) == CHOOSE i \in 1..Len(StringOrder) : StringOrder[i] = s
strLess(a, b) == strIndex(a) < strIndex(b)

\* Version.String of a revision, a branch or a plain version
String(v) == IF v.t = "rev" THEN v.r ELSE v.s

\* the rank of a variant in compareVersionType's order
typeRank(v) ==
    CASE v.t = "semver" -> 1
      [] v.t = "plain" -> 2
      [] v.t = "branch" -> 3
      [] v.t = "rev" -> 4

compareVersionType(l, r) ==
    IF typeRank(l) < typeRank(r) THEN -1
    ELSE IF typeRank(l) > typeRank(r) THEN 1 ELSE 0

\* semver.Version.Compare: major first; a release is above its prereleases
semverCompare(a, b) ==
    IF a.maj < b.maj THEN -1
    ELSE IF a.maj > b.maj THEN 1
    ELSE IF a.pre = b.pre THEN 0
    ELSE IF a.pre = 0 THEN 1
    ELSE IF b.pre = 0 THEN -1
    ELSE IF a.pre < b.pre THEN -1 ELSE 1

GreaterThan(a, b) == semverCompare(a, b) = 1
LessThan(a, b) == semverCompare(a, b) = -1
Prerelease(sv) == sv.pre

\* a versionPair is compared as its named half
namedHalf(v) == IF v.t = "pair" THEN v.v ELSE v

\* upgradeVersionSorter.Less, were it to leave out the prerelease rule
upgradeVersionSorterLess_noPrerelease(s, i, j) ==
    LET l == namedHalf(s[i])
        r == namedHalf(s[j])
    IN  CASE compareVersionType(l, r) = -1 -> TRUE
          [] compareVersionType(l, r) = 1 -> FALSE
          [] OTHER ->
                IF l.t \in {"rev", "branch", "plain"}
                THEN strLess(String(l), String(r))
                ELSE GreaterThan(l, r)

upgradeVersionSorterLess(s, i, j) ==
    LET l == namedHalf(s[i])
        r == namedHalf(s[j])
    IN  CASE compareVersionType(l, r) = -1 -> TRUE
          [] compareVersionType(l, r) = 1 -> FALSE
          [] OTHER ->
                IF l.t \in {"rev", "branch", "plain"}
                THEN strLess(String(l), String(r))
                ELSE LET lpre == Prerelease(l) = 0
                         rpre == Prerelease(r) = 0
                     IN  IF (lpre /\ ~rpre) \/ (~lpre /\ rpre)
                         THEN lpre
                         ELSE GreaterThan(l, r)

\* downgradeVersionSorter.Less, were it to compare as the upgrade sorter does
downgradeVersionSorterLess_greaterThan(s, i, j) ==
    LET l == namedHalf(s[i])
        r == namedHalf(s[j])
    IN  CASE compareVersionType(l, r) = -1 -> TRUE
          [] compareVersionType(l, r) = 1 -> FALSE
          [] OTHER ->
                IF l.t \in {"rev", "branch", "plain"}
                THEN strLess(String(l), String(r))
                ELSE LET lpre == Prerelease(l) = 0
                         rpre == Prerelease(r) = 0
                     IN  IF (lpre /\ ~rpre) \/ (~lpre /\ rpre)
                         THEN lpre
                         ELSE GreaterThan(l, r)

downgradeVersionSorterLess(s, i, j) ==
    LET l == namedHalf(s[i])
        r == namedHalf(s[j])
    IN  CASE compareVersionType(l, r) = -1 -> TRUE
          [] compareVersionType(l, r) = 1 -> FALSE
          [] OTHER ->
                IF l.t \in {"rev", "branch", "plain"}
                THEN strLess(String(l), String(r))
                ELSE LET lpre == Prerelease(l) = 0
                         rpre == Prerelease(r) = 0
                     IN  IF (lpre /\ ~rpre) \/ (~lpre /\ rpre)
                         THEN lpre
                         ELSE LessThan(l, r)

----------------------------------------------------------------------------
(* The source-manager adapter.  listVersions takes the adapter c it is a    *)
(* method of and returns its result with the adapter as it leaves it:      *)
(* c.vlists is the cache; c.smq and c.sme record whether the call queried  *)
(* the source manager and whether the source manager failed.               *)
(*                                                                         *)
(* The source manager's answer does not change while one operation runs,   *)
(* so every c.listVersions(id) one operation makes returns what its first  *)
(* returns (the list it cached, or the error again) and leaves the adapter *)
(* as the first left it.  The operations built on listVersions therefore   *)
(* take lv, what c.listVersions(id) returns, and say in listed whether     *)
(* they called it.                                                         *)

ProjectIdentifier(local, net) == [LocalName |-> local, NetworkName |-> net]

netName(id) == IF id.NetworkName = "" THEN id.LocalName ELSE id.NetworkName

key(id) == IF id.NetworkName = "" THEN id.LocalName ELSE id.NetworkName

noEntry == [has |-> FALSE, vl |-> <<>>]
nil == [t |-> "nil"]

smAdapter == [vlists |-> vlists, smq |-> FALSE, sme |-> FALSE]

\* sort.Sort under the sorter of the solve's direction
sortVersions(vl) ==
    IF sortdown
    THEN SortSeq(vl, LAMBDA a, b : downgradeVersionSorterLess(<<a, b>>, 1, 2))
    ELSE SortSeq(vl, LAMBDA a, b : upgradeVersionSorterLess(<<a, b>>, 1, 2))

\* the return of a listVersions that fetched vl and entered it under the key k
fetched(c, k, vl) ==
    [vl |-> vl, err |-> FALSE,
     c |-> [c EXCEPT !.vlists[k] = [has |-> TRUE, vl |-> vl], !.smq = TRUE]]

\* listVersions, were it to cache the source manager's errors too
listVersions_cacheErrors(c, id) ==
    IF c.vlists[key(id)].has
    THEN [vl |-> c.vlists[key(id)].vl, err |-> FALSE, c |-> c]
    ELSE IF sm[key(id)].err
    THEN [vl |-> <<>>, err |-> TRUE,
          c |-> [c EXCEPT !.vlists[key(id)] = [has |-> TRUE, vl |-> <<>>],
                          !.smq = TRUE, !.sme = TRUE]]
    ELSE fetched(c, key(id), sortVersions(sm[key(id)].vl))

listVersions(c, id) ==
    IF c.vlists[key(id)].has
    THEN [vl |-> c.vlists[key(id)].vl, err |-> FALSE, c |-> c]
    ELSE IF sm[key(id)].err
    THEN [vl |-> <<>>, err |-> TRUE, c |-> [c EXCEPT !.smq = TRUE, !.sme = TRUE]]
    ELSE fetched(c, key(id), sortVersions(sm[key(id)].vl))

\* the first element of vl that is a PairedVersion matching v, else nil
RECURSIVE firstPairMatching(_, _)
firstPairMatching(vl, v) ==
    IF vl = <<>> THEN nil
    ELSE IF IsPaired(Head(vl)) /\ Matches(Head(vl), v) THEN Head(vl)
    ELSE firstPairMatching(Tail(vl), v)

pairVersion(lv, v) ==
    IF lv.err THEN nil ELSE firstPairMatching(lv.vl, v)

pairRevision(lv, r) ==
    IF lv.err THEN <<>>
    ELSE <<r>> \o SelectSeq(lv.vl, LAMBDA v2 : IsPaired(v2) /\ Matches(v2, r))

\* whether the constraint tc matches some element of the sequence p
matchesSome(tc, p) == \E i \in 1..Len(p) : Matches(tc, p[i])

\* the revision of a PairedVersion or of a Revision
revisionOf(v) == IF IsPaired(v) THEN Underlying(v) ELSE v

\* matches, were it to stop at the basic check
matches_basicOnly(lv, c2, v) == [ret |-> Matches(c2, v), listed |-> FALSE]

matches(lv, c2, v) ==
    IF Matches(c2, v) THEN [ret |-> TRUE, listed |-> FALSE]
    ELSE IF IsPaired(v) \/ IsRevision(v) THEN
        CASE c2.t \in {"pair", "rev", "none"} -> [ret |-> FALSE, listed |-> FALSE]
          [] IsUnpaired(c2) ->
                [ret |-> /\ pairVersion(lv, c2) # nil
                         /\ Matches(pairVersion(lv, c2), v),
                 listed |-> TRUE]
          [] c2.t = "range" ->
                [ret |-> matchesSome(c2, pairRevision(lv, revisionOf(v))),
                 listed |-> TRUE]
          [] OTHER -> [ret |-> FALSE, listed |-> FALSE]
    ELSE \* UnpairedVersion
        CASE c2.t = "none" -> [ret |-> FALSE, listed |-> FALSE]
          [] c2.t \in {"rev", "pair"} ->
                [ret |-> /\ pairVersion(lv, v) # nil
                         /\ Matches(c2, pairVersion(lv, v)),
                 listed |-> TRUE]
          [] IsUnpaired(c2) ->
                [ret |-> /\ pairVersion(lv, v) # nil
                         /\ pairVersion(lv, c2) # nil
                         /\ Matches(pairVersion(lv, c2), pairVersion(lv, v)),
                 listed |-> TRUE]
          [] c2.t = "range" ->
                [ret |-> /\ pairVersion(lv, v) # nil
                         /\ matchesSome(c2,
                                pairRevision(lv, Underlying(pairVersion(lv, v)))),
                 listed |-> TRUE]
          [] OTHER -> [ret |-> FALSE, listed |-> FALSE]

vtypeUnion(lv, v) ==
    CASE IsRevision(v) -> versionTypeUnion(pairRevision(lv, v))
      [] IsPaired(v) -> versionTypeUnion(pairRevision(lv, Underlying(v)))
      [] IsUnpaired(v) ->
            IF pairVersion(lv, v) = nil THEN versionTypeUnion(<<v>>)
            ELSE versionTypeUnion(pairRevision(lv, Underlying(pairVersion(lv, v))))
      [] OTHER -> versionTypeUnion(<<>>)

\* the operand as matchesAny and intersect expand it
expand(lv, c1) == IF IsVersion(c1) THEN vtypeUnion(lv, c1) ELSE c1

\* vtypeUnion calls listVersions on a Revision, a PairedVersion and an
\* UnpairedVersion
expandLists(c1) == c1.t \in {"rev", "pair", "branch", "plain", "semver"}

matchesAny(lv, c1, c2) ==
    IF MatchesAny(c1, c2) THEN [ret |-> TRUE, listed |-> FALSE]
    ELSE [ret |-> MatchesAny(expand(lv, c1), expand(lv, c2)),
          listed |-> expandLists(c1) \/ expandLists(c2)]

intersect(lv, c1, c2) ==
    IF Intersect(c1, c2) # none
    THEN [ret |-> Intersect(c1, c2), listed |-> FALSE]
    ELSE [ret |-> Intersect(expand(lv, c1), expand(lv, c2)),
          listed |-> expandLists(c1) \/ expandLists(c2)]

\* the adapter after an operation that called listVersions (lv) or not
after(c, lv, listed) == IF listed THEN lv.c ELSE c

----------------------------------------------------------------------------
(* The selection and the names, as the solver's checks read them.          *)

ProjectAtom(id, v) == [Ident |-> id, Version |-> v]
ProjectDep(id, c) == [Ident |-> id, Constraint |-> c]
Dependency(pa, pd) == [Depender |-> pa, Dep |-> pd]

\* selection.getDependenciesOn: the edges onto id, in the order pushed
getDependenciesOn(id) == SelectSeq(deps, LAMBDA d : d.Dep.Ident = id)

\* the intersection of the constraints of a sequence of edges
RECURSIVE intersectAll(_, _)
intersectAll(ds, acc) ==
    IF ds = <<>> THEN acc
    ELSE intersectAll(Tail(ds), Intersect(acc, Head(ds).Dep.Constraint))

\* selection.getConstraint: any when nothing depends on id
getConstraint(id) == intersectAll(getDependenciesOn(id), any)

\* selection.selected: the atom selected for id, if any
isSelected(id) == \E a \in selected : a.Ident = id
selectedAtom(id) == CHOOSE a \in selected : a.Ident = id

\* the identifiers of the dependers of a sequence of edges: what a loop
\* calling s.fail(d.Depender.Ident) on each passes to s.fail
dependerIdents(ds) == [i \in 1..Len(ds) |-> ds[i].Depender.Ident]

\* the elements of a sequence, as a set
Range(q) == {q[i] : i \in 1..Len(q)}

----------------------------------------------------------------------------
(* The satisfiability checker.  A check returns its error (ok for nil)     *)
(* and the identifiers it passed to s.fail, in order.                      *)

ok == [kind |-> "ok"]
fetchError == [kind |-> "fetchError"]

checkAtomAllowable(pa) ==
    LET constraint == getConstraint(pa.Ident) IN
    IF Matches(constraint, pa.Version) THEN [err |-> ok, fails |-> <<>>]
    ELSE LET failparent == SelectSeq(getDependenciesOn(pa.Ident),
                LAMBDA dep : ~Matches(dep.Dep.Constraint, pa.Version))
         IN  [err |-> [kind |-> "versionNotAllowed", goal |-> pa,
                       failparent |-> failparent, c |-> constraint],
              fails |-> dependerIdents(failparent)]

\* checkDepsConstraintsAllowable, were it to fail every sibling
checkDepsConstraintsAllowable_failAll(pa, dep) ==
    LET constraint == getConstraint(dep.Ident) IN
    IF MatchesAny(constraint, dep.Constraint) THEN [err |-> ok, fails |-> <<>>]
    ELSE LET siblings == getDependenciesOn(dep.Ident)
             failsib == SelectSeq(siblings, LAMBDA sibling :
                ~MatchesAny(sibling.Dep.Constraint, dep.Constraint))
             nofailsib == SelectSeq(siblings, LAMBDA sibling :
                MatchesAny(sibling.Dep.Constraint, dep.Constraint))
         IN  [err |-> [kind |-> "disjointConstraint",
                       goal |-> Dependency(pa, dep),
                       failsib |-> failsib, nofailsib |-> nofailsib,
                       c |-> constraint],
              fails |-> dependerIdents(siblings)]

checkDepsConstraintsAllowable(pa, dep) ==
    LET constraint == getConstraint(dep.Ident) IN
    IF MatchesAny(constraint, dep.Constraint) THEN [err |-> ok, fails |-> <<>>]
    ELSE LET siblings == getDependenciesOn(dep.Ident)
             failsib == SelectSeq(siblings, LAMBDA sibling :
                ~MatchesAny(sibling.Dep.Constraint, dep.Constraint))
             nofailsib == SelectSeq(siblings, LAMBDA sibling :
                MatchesAny(sibling.Dep.Constraint, dep.Constraint))
         IN  [err |-> [kind |-> "disjointConstraint",
                       goal |-> Dependency(pa, dep),
                       failsib |-> failsib, nofailsib |-> nofailsib,
                       c |-> constraint],
              fails |-> dependerIdents(failsib)]

\* checkDepsDisallowsSelected, were it to leave out s.fail(dep.Ident)
checkDepsDisallowsSelected_noFail(pa, dep) ==
    IF isSelected(dep.Ident)
       /\ ~Matches(dep.Constraint, selectedAtom(dep.Ident).Version)
    THEN [err |-> [kind |-> "constraintNotAllowed",
                   goal |-> Dependency(pa, dep),
                   v |-> selectedAtom(dep.Ident).Version],
          fails |-> <<>>]
    ELSE [err |-> ok, fails |-> <<>>]

checkDepsDisallowsSelected(pa, dep) ==
    IF isSelected(dep.Ident)
       /\ ~Matches(dep.Constraint, selectedAtom(dep.Ident).Version)
    THEN [err |-> [kind |-> "constraintNotAllowed",
                   goal |-> Dependency(pa, dep),
                   v |-> selectedAtom(dep.Ident).Version],
          fails |-> <<dep.Ident>>]
    ELSE [err |-> ok, fails |-> <<>>]

\* checkIdentMatches, were it to compare with the LocalName of the dependency
checkIdentMatches_localName(pa, dep) ==
    IF names[dep.Ident.LocalName].exists
       /\ names[dep.Ident.LocalName].cur # dep.Ident.LocalName
    THEN LET ds == getDependenciesOn(pa.Ident) IN
         [err |-> [kind |-> "sourceMismatch", shared |-> dep.Ident.LocalName,
                   sel |-> ds, current |-> names[dep.Ident.LocalName].cur,
                   mismatch |-> netName(dep.Ident), prob |-> pa],
          fails |-> dependerIdents(ds)]
    ELSE [err |-> ok, fails |-> <<>>]

checkIdentMatches(pa, dep) ==
    IF names[dep.Ident.LocalName].exists
       /\ names[dep.Ident.LocalName].cur # netName(dep.Ident)
    THEN LET ds == getDependenciesOn(pa.Ident) IN
         [err |-> [kind |-> "sourceMismatch", shared |-> dep.Ident.LocalName,
                   sel |-> ds, current |-> names[dep.Ident.LocalName].cur,
                   mismatch |-> netName(dep.Ident), prob |-> pa],
          fails |-> dependerIdents(ds)]
    ELSE [err |-> ok, fails |-> <<>>]

\* one entry of the record of what a call evaluated: a check, and the
\* index of the dependency it was evaluated on (0: the atom itself)
step(check, i) == [check |-> check, dep |-> i]

\* the loop over deps of satisfiable, from index i, after the steps in trace
RECURSIVE checkDeps(_, _, _, _)
checkDeps(pa, ds, i, trace) ==
    IF i > Len(ds) THEN [err |-> ok, fails |-> <<>>, trace |-> trace]
    ELSE LET dep == ds[i]
             im == checkIdentMatches(pa, dep)
             ca == checkDepsConstraintsAllowable(pa, dep)
             ds2 == checkDepsDisallowsSelected(pa, dep)
             t1 == Append(trace, step("checkIdentMatches", i))
             t2 == Append(t1, step("checkDepsConstraintsAllowable", i))
             t3 == Append(t2, step("checkDepsDisallowsSelected", i))
         IN  IF im.err # ok THEN [err |-> im.err, fails |-> im.fails, trace |-> t1]
             ELSE IF ca.err # ok
             THEN [err |-> ca.err, fails |-> ca.fails, trace |-> t2]
             ELSE IF ds2.err # ok
             THEN [err |-> ds2.err, fails |-> ds2.fails, trace |-> t3]
             ELSE checkDeps(pa, ds, i + 1, t3)

\* satisfiable, were it to fetch the dependencies before checkAtomAllowable
satisfiable_fetchFirst(pa, fetch) ==
    LET aa == checkAtomAllowable(pa)
        t1 == <<step("getDependenciesOf", 0)>>
        t2 == Append(t1, step("checkAtomAllowable", 0))
    IN  IF fetch.err THEN [err |-> fetchError, fails |-> <<>>, trace |-> t1]
        ELSE IF aa.err # ok THEN [err |-> aa.err, fails |-> aa.fails, trace |-> t2]
        ELSE checkDeps(pa, fetch.deps, 1, t2)

\* fetch: what getDependenciesOf(pa) returns, [err, deps]
satisfiable(pa, fetch) ==
    LET aa == checkAtomAllowable(pa)
        t1 == <<step("checkAtomAllowable", 0)>>
        t2 == Append(t1, step("getDependenciesOf", 0))
    IN  IF aa.err # ok THEN [err |-> aa.err, fails |-> aa.fails, trace |-> t1]
        ELSE IF fetch.err THEN [err |-> fetchError, fails |-> <<>>, trace |-> t2]
        ELSE checkDeps(pa, fetch.deps, 1, t2)

----------------------------------------------------------------------------
(* The values the model draws its inputs from.                             *)

\* the sequences over S of length at most n
BoundedSeq(S, n) == UNION {[1..k -> S] : k \in 0..n}

\* the sequences of BoundedSeq(S, n) that repeat no element
DistinctSeq(S, n) ==
    {q \in BoundedSeq(S, n) : \A i, j \in 1..Len(q) : i # j => q[i] # q[j]}

foo == ProjectIdentifier("foo", "")
bar == ProjectIdentifier("bar", "")
barY == ProjectIdentifier("bar", "y/bar")

r1 == semverConstraint({1})
r2 == semverConstraint({2})
r12 == semverConstraint({1, 2})

\* the candidate atoms satisfiable is called on
Candidates == {ProjectAtom(foo, semVersion(1, 0)), ProjectAtom(foo, semVersion(2, 0))}

\* the dependencies a candidate may declare
DepPool == {ProjectDep(bar, r1), ProjectDep(bar, r2), ProjectDep(bar, r12),
            ProjectDep(barY, r1)}

\* what getDependenciesOf may return
Fetches == {[err |-> TRUE, deps |-> <<>>]}
           \cup {[err |-> FALSE, deps |-> q] : q \in BoundedSeq(DepPool, MaxDeps)}

\* the atoms already selected that depend on foo or on bar
DependerNames == <<"baz", "quux", "qux", "corge">>
Depender(i) == ProjectAtom(ProjectIdentifier(DependerNames[i], ""), semVersion(1, 0))
SelConstraints == {r1, r2, r12}

noName == [exists |-> FALSE, cur |-> ""]
idle == [called |-> FALSE]

\* the projects the adapter is asked about, and their keys
SMAIdents == {bar, barY}
Keys == {key(id) : id \in SMAIdents}

\* the versions a source manager lists
ListPool == {versionPair(semVersion(1, 0), "r1"),
             versionPair(branchVersion("master"), "r1"),
             versionPair(semVersion(2, 0), "r2")}

\* what SourceManager.ListVersions may answer
smError == [err |-> TRUE, vl |-> <<>>]
Responses == {smError}
             \cup {[err |-> FALSE, vl |-> q] : q \in DistinctSeq(ListPool, MaxVList)}

\* the versions and constraints handed to the adapter's operations
VersionPool == {Revision("r1"), Revision("r2"),
                branchVersion("master"), branchVersion("dev"),
                semVersion(1, 0), semVersion(2, 0),
                versionPair(branchVersion("master"), "r1"),
                versionPair(semVersion(1, 0), "r1"),
                versionPair(semVersion(2, 0), "r2")}
ConstraintPool == VersionPool \cup {any, none, r1, r2}

\* the versions handed to the sorters
MaxPre == 2
SemVersions == {semVersion(m, p) : m \in 1..MaxMajor, p \in 0..MaxPre}
Unpaired == SemVersions
            \cup {branchVersion("master"), branchVersion("dev"),
                  plainVersion("stable"), plainVersion("dev")}
SortVersions == Unpaired \cup {Revision("r1"), Revision("r2")}
                \cup {versionPair(u, "r1") : u \in Unpaired}
                \cup {versionPair(semVersion(1, 0), "r2")}

----------------------------------------------------------------------------
(* The states the variables of the other specifications rest in.           *)

solverAtRest ==
    /\ names = [l \in {"bar"} |-> noName]
    /\ deps = <<>>
    /\ selected = {}
    /\ failed = {}
    /\ res = idle

smaAtRest ==
    /\ sm = [k \in Keys |-> smError]
    /\ vlists = [k \in Keys |-> noEntry]
    /\ sortdown = FALSE
    /\ args = [id |-> bar, a |-> any, b |-> any]
    /\ out = [op |-> "idle"]

sortAtRest ==
    /\ vs = <<>>
    /\ less = [up |-> <<>>, down |-> <<>>]

----------------------------------------------------------------------------
(* Spec: the solver.  The outer loop pushes edges, selects atoms and       *)
(* records names between two calls of satisfiable.                         *)

\* solver.fail on each identifier of ids, in order
failAll(marked, ids) == marked \cup Range(ids)

Init ==
    /\ names = [l \in {"bar"} |-> noName]
    /\ deps = <<>>
    /\ selected = {}
    /\ failed = {}
    /\ res = idle
    /\ smaAtRest
    /\ sortAtRest

PushDep(target, c) ==
    /\ ~res.called
    /\ Len(deps) < MaxSelDeps
    /\ deps' = Append(deps, Dependency(Depender(Len(deps) + 1), ProjectDep(target, c)))
    /\ UNCHANGED <<names, selected, failed, res, smaVars, sortVars>>

SelectAtom(a) ==
    /\ ~res.called
    /\ ~isSelected(a.Ident)
    /\ selected' = selected \cup {a}
    /\ UNCHANGED <<names, deps, failed, res, smaVars, sortVars>>

SetName(id) ==
    /\ ~res.called
    /\ ~names[id.LocalName].exists
    /\ names' = [names EXCEPT ![id.LocalName] = [exists |-> TRUE, cur |-> netName(id)]]
    /\ UNCHANGED <<deps, selected, failed, res, smaVars, sortVars>>

Satisfiable(pa, fetch) ==
    /\ ~res.called
    /\ LET r == satisfiable(pa, fetch) IN
       /\ res' = [called |-> TRUE, pa |-> pa, fetch |-> fetch, err |-> r.err,
                  fails |-> r.fails, trace |-> r.trace]
       /\ failed' = failAll(failed, r.fails)
    /\ UNCHANGED <<names, deps, selected, smaVars, sortVars>>

\* the outer loop takes the result and the marks, and moves on
Proceed ==
    /\ res.called
    /\ res' = idle
    /\ failed' = {}
    /\ UNCHANGED <<names, deps, selected, smaVars, sortVars>>

Next ==
    \/ \E target \in {foo, bar}, c \in SelConstraints : PushDep(target, c)
    \/ \E v \in {semVersion(1, 0), semVersion(2, 0)} : SelectAtom(ProjectAtom(bar, v))
    \/ \E id \in {bar, barY} : SetName(id)
    \/ \E pa \in Candidates, fetch \in Fetches : Satisfiable(pa, fetch)
    \/ Proceed

Spec == Init /\ [][Next]_vars

----------------------------------------------------------------------------
(* Claims about satisfiable, checked under Spec.                           *)

\* whether names allows the identifier of dep
C1_IdentAgrees(dep) ==
    \/ ~names[dep.Ident.LocalName].exists
    \/ names[dep.Ident.LocalName].cur = netName(dep.Ident)

C1_Conditions(pa, fetch) ==
    /\ Matches(getConstraint(pa.Ident), pa.Version)
    /\ ~fetch.err
    /\ \A i \in 1..Len(fetch.deps) :
          LET dep == fetch.deps[i] IN
          /\ C1_IdentAgrees(dep)
          /\ MatchesAny(getConstraint(dep.Ident), dep.Constraint)
          /\ \/ ~isSelected(dep.Ident)
             \/ Matches(dep.Constraint, selectedAtom(dep.Ident).Version)

\* C1: satisfiable(pa) returns Ok if and only if the constraint on pa's
\* project matches pa's version, the dependencies of pa are fetched, and every
\* dependency agrees with names, has a constraint that meets the constraint
\* already on its project, and allows the version selected for its project, if
\* any; so no atom is admitted with a dependency whose local name is bound to
\* another network source.
C1_OkIffAllChecksPass ==
    res.called =>
        /\ (res.err = ok) <=> C1_Conditions(res.pa, res.fetch)
        /\ res.err = ok =>
              \A i \in 1..Len(res.fetch.deps) : C1_IdentAgrees(res.fetch.deps[i])

C1_Witness ==
    /\ res.called
    /\ res.err = ok
    /\ Len(res.fetch.deps) = 2
    /\ names["bar"].exists
    /\ isSelected(bar)
    /\ getDependenciesOn(bar) # <<>>
    /\ getDependenciesOn(foo) # <<>>

\* C2 as claimed: every return of satisfiable that is not Ok has called s.fail
\* at least once, or is a versionNotAllowed failure with an empty failparent.
C2_BlameCoverage ==
    (res.called /\ res.err # ok) =>
        \/ res.fails # <<>>
        \/ res.err.kind = "versionNotAllowed" /\ res.err.failparent = <<>>

\* C2 as amended: every return of satisfiable that is not Ok has called
\* s.fail at least once, or is the fetch error passed through, or is a
\* versionNotAllowed failure with an empty failparent, a sourceMismatch
\* failure of a candidate nothing depends on, or a disjointConstraint failure
\* with an empty failsib.
C2_BlameCoverageAmended ==
    (res.called /\ res.err # ok) =>
        \/ res.fails # <<>>
        \/ res.err.kind = "fetchError"
        \/ res.err.kind = "versionNotAllowed" /\ res.err.failparent = <<>>
        \/ res.err.kind = "sourceMismatch" /\ res.err.sel = <<>>
        \/ res.err.kind = "disjointConstraint" /\ res.err.failsib = <<>>

C2_Witness ==
    /\ res.called
    /\ res.err.kind = "disjointConstraint"
    /\ res.err.failsib # <<>>
    /\ res.err.nofailsib # <<>>
    /\ res.fails # <<>>

\* the checks satisfiable makes on pa with its dependencies, in order
C3_Plan(fetch) ==
    <<step("checkAtomAllowable", 0), step("getDependenciesOf", 0)>>
    \o [k \in 1..(3 * Len(fetch.deps)) |->
            step(<<"checkIdentMatches", "checkDepsConstraintsAllowable",
                   "checkDepsDisallowsSelected">>[((k - 1) % 3) + 1],
                 ((k - 1) \div 3) + 1)]

\* what the check st answers on its own
C3_Outcome(pa, fetch, st) ==
    CASE st.check = "checkAtomAllowable" -> checkAtomAllowable(pa)
      [] st.check = "getDependenciesOf" ->
            [err |-> IF fetch.err THEN fetchError ELSE ok, fails |-> <<>>]
      [] st.check = "checkIdentMatches" ->
            checkIdentMatches(pa, fetch.deps[st.dep])
      [] st.check = "checkDepsConstraintsAllowable" ->
            checkDepsConstraintsAllowable(pa, fetch.deps[st.dep])
      [] st.check = "checkDepsDisallowsSelected" ->
            checkDepsDisallowsSelected(pa, fetch.deps[st.dep])

\* C3: satisfiable evaluates checkAtomAllowable, then the fetch of the
\* dependencies, then for each dependency in order checkIdentMatches,
\* checkDepsConstraintsAllowable and checkDepsDisallowsSelected; it stops at
\* the first that fails, returns that failure and makes the s.fail calls of
\* that check only.
C3_FirstFailureInOrder ==
    res.called =>
        LET plan == C3_Plan(res.fetch)
            n == Len(res.trace)
        IN  /\ n >= 1
            /\ n <= Len(plan)
            /\ res.trace = SubSeq(plan, 1, n)
            /\ \A k \in 1..(n - 1) : C3_Outcome(res.pa, res.fetch, plan[k]).err = ok
            /\ LET last == C3_Outcome(res.pa, res.fetch, plan[n]) IN
               IF last.err # ok
               THEN res.err = last.err /\ res.fails = last.fails
               ELSE n = Len(plan) /\ res.err = ok /\ res.fails = <<>>
            /\ res.err.kind = "versionNotAllowed" =>
                  res.trace = <<step("checkAtomAllowable", 0)>>

C3_Witness ==
    /\ res.called
    /\ res.err.kind = "sourceMismatch"
    /\ Len(res.trace) = 6
    /\ checkDepsConstraintsAllowable(res.pa, res.fetch.deps[2]).err # ok
    /\ res.fails # <<>>

\* the identifiers the failure err of a call on pa answers for
C4_BlameSet(pa, err) ==
    CASE err.kind \in {"ok", "fetchError"} -> <<>>
      [] err.kind = "versionNotAllowed" ->
            dependerIdents(SelectSeq(getDependenciesOn(pa.Ident),
                LAMBDA d : ~Matches(d.Dep.Constraint, pa.Version)))
      [] err.kind = "sourceMismatch" ->
            dependerIdents(getDependenciesOn(pa.Ident))
      [] err.kind = "disjointConstraint" ->
            dependerIdents(SelectSeq(getDependenciesOn(err.goal.Dep.Ident),
                LAMBDA d : ~MatchesAny(d.Dep.Constraint, err.goal.Dep.Constraint)))
      [] err.kind = "constraintNotAllowed" -> <<err.goal.Dep.Ident>>

C4_MarksAreBlameSet ==
    IF ~res.called THEN failed = {}
    ELSE /\ res.fails = C4_BlameSet(res.pa, res.err)
         /\ failed = Range(res.fails)
         /\ res.err.kind = "versionNotAllowed" =>
                res.fails = dependerIdents(res.err.failparent)
         /\ res.err.kind = "disjointConstraint" =>
                LET siblings == getDependenciesOn(res.err.goal.Dep.Ident) IN
                /\ res.fails = dependerIdents(res.err.failsib)
                /\ Range(res.err.failsib) \cup Range(res.err.nofailsib)
                      = Range(siblings)
                /\ Range(res.err.failsib) \cap Range(res.err.nofailsib) = {}
                /\ Len(res.err.failsib) + Len(res.err.nofailsib) = Len(siblings)
                /\ \A i \in 1..Len(res.err.nofailsib) :
                      res.err.nofailsib[i].Depender.Ident \notin failed

\* C4: satisfiable writes s.fail marks only: the identifiers it marks in a
\* call are those its result answers for (none for Ok and a fetch error; the
\* dependers of failparent, of every edge onto the candidate, of failsib; the
\* dependency's own identifier), failsib and nofailsib split the edges onto
\* the dependency and no nofailsib depender is marked; names, the selected
\* atoms and the edges are as before the call.
C4_OnlyBlameIsWritten ==
    /\ []C4_MarksAreBlameSet
    /\ [][(~res.called /\ res'.called) => UNCHANGED <<names, deps, selected>>]_vars

C4_Witness ==
    /\ res.called
    /\ res.err.kind = "versionNotAllowed"
    /\ Len(getDependenciesOn(res.pa.Ident)) = 2
    /\ Len(res.fails) = 1

----------------------------------------------------------------------------
(* The adapter's operations as actions.  out is the return of the last     *)
(* one: ret the value, err whether an error was returned, smq and sme      *)
(* whether the source manager was queried and whether it failed.           *)

return(op, id, ret, err, c) ==
    [op |-> op, id |-> id, ret |-> ret, err |-> err, smq |-> c.smq, sme |-> c.sme]

CallListVersions(id) ==
    /\ LET lv == listVersions(smAdapter, id) IN
       /\ out' = return("listVersions", id, lv.vl, lv.err, lv.c)
       /\ vlists' = lv.c.vlists
    /\ UNCHANGED <<sm, sortdown, args, solverVars, sortVars>>

CallPairVersion ==
    /\ IsUnpaired(args.b)
    /\ LET lv == listVersions(smAdapter, args.id) IN
       /\ out' = return("pairVersion", args.id, pairVersion(lv, args.b), FALSE, lv.c)
       /\ vlists' = lv.c.vlists
    /\ UNCHANGED <<sm, sortdown, args, solverVars, sortVars>>

CallPairRevision ==
    /\ IsRevision(args.b)
    /\ LET lv == listVersions(smAdapter, args.id) IN
       /\ out' = return("pairRevision", args.id, pairRevision(lv, args.b), FALSE, lv.c)
       /\ vlists' = lv.c.vlists
    /\ UNCHANGED <<sm, sortdown, args, solverVars, sortVars>>

CallMatches ==
    /\ IsVersion(args.b)
    /\ LET lv == listVersions(smAdapter, args.id)
           r == matches(lv, args.a, args.b)
           c == after(smAdapter, lv, r.listed)
       IN  /\ out' = return("matches", args.id, r.ret, FALSE, c)
           /\ vlists' = c.vlists
    /\ UNCHANGED <<sm, sortdown, args, solverVars, sortVars>>

CallMatchesAny ==
    /\ LET lv == listVersions(smAdapter, args.id)
           r == matchesAny(lv, args.a, args.b)
           c == after(smAdapter, lv, r.listed)
       IN  /\ out' = return("matchesAny", args.id, r.ret, FALSE, c)
           /\ vlists' = c.vlists
    /\ UNCHANGED <<sm, sortdown, args, solverVars, sortVars>>

CallIntersect ==
    /\ LET lv == listVersions(smAdapter, args.id)
           r == intersect(lv, args.a, args.b)
           c == after(smAdapter, lv, r.listed)
       IN  /\ out' = return("intersect", args.id, r.ret, FALSE, c)
           /\ vlists' = c.vlists
    /\ UNCHANGED <<sm, sortdown, args, solverVars, sortVars>>

\* the source manager's answer for the key k becomes resp
SMChange(k, resp) ==
    /\ sm' = [sm EXCEPT ![k] = resp]
    /\ UNCHANGED <<vlists, sortdown, args, out, solverVars, sortVars>>

----------------------------------------------------------------------------
(* SpecSMA: the adapter's operations on operands drawn at the start, with  *)
(* an empty cache and a source manager that answers or fails.              *)

InitSMA ==
    /\ solverAtRest
    /\ sortAtRest
    /\ args \in [id : SMAIdents, a : ConstraintPool, b : ConstraintPool]
    /\ \E resp \in Responses :
          sm = [k \in Keys |-> IF k = key(args.id) THEN resp ELSE smError]
    /\ vlists = [k \in Keys |-> noEntry]
    /\ sortdown \in BOOLEAN
    /\ out = [op |-> "idle"]

NextSMA ==
    \/ CallListVersions(args.id)
    \/ CallPairVersion
    \/ CallPairRevision
    \/ CallMatches
    \/ CallMatchesAny
    \/ CallIntersect

SpecSMA == InitSMA /\ [][NextSMA]_vars

----------------------------------------------------------------------------
(* SpecCache: listVersions over one solve, while the source manager's      *)
(* answers change.                                                         *)

InitCache ==
    /\ solverAtRest
    /\ sortAtRest
    /\ args = [id |-> bar, a |-> any, b |-> any]
    /\ sm \in [Keys -> Responses]
    /\ vlists = [k \in Keys |-> noEntry]
    /\ sortdown \in BOOLEAN
    /\ out = [op |-> "idle"]

NextCache ==
    \/ \E id \in SMAIdents : CallListVersions(id)
    \/ \E k \in Keys, resp \in Responses : SMChange(k, resp)

SpecCache == InitCache /\ [][NextCache]_vars

----------------------------------------------------------------------------
(* SpecSort: the sorters' Less on a slice of two versions.                 *)

InitSort ==
    /\ solverAtRest
    /\ smaAtRest
    /\ vs \in [1..2 -> SortVersions]
    /\ less = [up |-> <<>>, down |-> <<>>]

CallUpgradeLess ==
    /\ less.up = <<>>
    /\ less' = [less EXCEPT !.up = <<upgradeVersionSorterLess(vs, 1, 2),
                                      upgradeVersionSorterLess(vs, 2, 1)>>]
    /\ UNCHANGED <<vs, solverVars, smaVars>>

CallDowngradeLess ==
    /\ less.down = <<>>
    /\ less' = [less EXCEPT !.down = <<downgradeVersionSorterLess(vs, 1, 2),
                                        downgradeVersionSorterLess(vs, 2, 1)>>]
    /\ UNCHANGED <<vs, solverVars, smaVars>>

NextSort == CallUpgradeLess \/ CallDowngradeLess

SpecSort == InitSort /\ [][NextSort]_vars

----------------------------------------------------------------------------
(* Claims about the version cache, checked under SpecCache.                *)

\* a step of listVersions: the source manager's answers are as before
C5_ListVersionsStep == sm' = sm /\ out'.op = "listVersions"

\* C5: over the listVersions calls of one solve the version cache only
\* grows: an entry is never changed or removed; a key gets its entry only
\* from a listVersions of that key whose fetch succeeded, and the entry is
\* the list returned; a failed fetch returns the error and leaves the key
\* without entry, so the next call for the key queries the source manager
\* again; once a key has an entry every call for it returns that list
\* without querying the source manager.
C5_CacheOnlyGrows ==
    /\ [][\A k \in Keys : vlists[k].has => vlists'[k] = vlists[k]]_vars
    /\ [][\A k \in Keys : (~vlists[k].has /\ vlists'[k].has) =>
            /\ C5_ListVersionsStep
            /\ key(out'.id) = k
            /\ out'.smq /\ ~out'.sme /\ ~out'.err /\ ~sm[k].err
            /\ vlists'[k].vl = out'.ret]_vars
    /\ []((out.op = "listVersions" /\ out.sme) =>
            (out.err /\ out.smq /\ ~vlists[key(out.id)].has))
    /\ [][(C5_ListVersionsStep /\ ~vlists[key(out'.id)].has) => out'.smq]_vars
    /\ [][(C5_ListVersionsStep /\ vlists[key(out'.id)].has) =>
            /\ ~out'.smq /\ ~out'.err
            /\ out'.ret = vlists[key(out'.id)].vl
            /\ vlists' = vlists]_vars

C5_Witness ==
    /\ out.op = "listVersions"
    /\ ~out.smq
    /\ Len(out.ret) = 2
    /\ sm[key(out.id)].err
    /\ \E k \in Keys : ~vlists[k].has /\ sm[k].err

----------------------------------------------------------------------------
(* Claims about the authoritative operations, checked under SpecSMA.       *)

\* what c.listVersions(id) returns in the present state
C6_Listed == listVersions(smAdapter, args.id)

\* the cell of the decision table for the version V and the constraint C
C6_Cell(C, V) ==
    LET lv == C6_Listed IN
    CASE C.t = "none" -> FALSE
      [] (IsPaired(V) \/ IsRevision(V)) /\ C.t \in {"pair", "rev"} -> FALSE
      [] (IsPaired(V) \/ IsRevision(V)) /\ IsUnpaired(C) ->
            /\ pairVersion(lv, C) # nil
            /\ Matches(pairVersion(lv, C), V)
      [] (IsPaired(V) \/ IsRevision(V)) /\ C.t = "range" ->
            \E m \in Range(pairRevision(lv, revisionOf(V))) : Matches(C, m)
      [] IsUnpaired(V) /\ C.t \in {"pair", "rev"} ->
            /\ pairVersion(lv, V) # nil
            /\ Matches(C, pairVersion(lv, V))
      [] IsUnpaired(V) /\ IsUnpaired(C) ->
            /\ pairVersion(lv, V) # nil
            /\ pairVersion(lv, C) # nil
            /\ Matches(pairVersion(lv, C), pairVersion(lv, V))
      [] IsUnpaired(V) /\ C.t = "range" ->
            /\ pairVersion(lv, V) # nil
            /\ \E m \in Range(pairRevision(lv, Underlying(pairVersion(lv, V)))) :
                  Matches(C, m)
      [] OTHER -> FALSE

\* whether the cell for V and C needs the pairing of an operand that
\* pairVersion does not find
C6_PairingFails(C, V) ==
    LET lv == C6_Listed IN
    \/ IsUnpaired(V) /\ pairVersion(lv, V) = nil
    \/ IsUnpaired(C) /\ pairVersion(lv, C) = nil

\* C6: matches(id, C, V) is true whenever C.Matches(V) is; when the basic
\* match is false it is what the cell of the decision table for the variants
\* of V and C says, and false when C is none or a pairing the cell needs finds
\* nothing.
C6_MatchesFollowsTable ==
    out.op = "matches" =>
        /\ Matches(args.a, args.b) => out.ret
        /\ ~Matches(args.a, args.b) => (out.ret <=> C6_Cell(args.a, args.b))
        /\ (~Matches(args.a, args.b)
            /\ (args.a = none \/ C6_PairingFails(args.a, args.b))) => ~out.ret

C6_Witness ==
    /\ out.op = "matches"
    /\ out.ret
    /\ ~Matches(args.a, args.b)
    /\ args.a.t = "range"
    /\ IsRevision(args.b)

\* C7: c1.MatchesAny(c2) implies matchesAny(id, c1, c2), and intersect(id,
\* c1, c2) differs from none exactly when matchesAny(id, c1, c2) is true.
C7_IntersectIffMatchesAny ==
    /\ out.op = "matchesAny" =>
          /\ MatchesAny(args.a, args.b) => out.ret
          /\ out.ret <=> (intersect(C6_Listed, args.a, args.b).ret # none)
    /\ out.op = "intersect" =>
          /\ MatchesAny(args.a, args.b) => out.ret # none
          /\ (out.ret # none) <=> matchesAny(C6_Listed, args.a, args.b).ret

C7_Witness ==
    /\ out.op = "intersect"
    /\ out.ret # none
    /\ ~MatchesAny(args.a, args.b)
    /\ IsUnpaired(args.a)
    /\ IsUnpaired(args.b)

\* C8 as claimed: an operation that met a source-manager error returns an
\* error: satisfiable on the fetch of the dependencies, listVersions, and
\* pairVersion, pairRevision, matches, matchesAny and intersect.
C8_ErrorsBubbleUp ==
    /\ (res.called /\ res.fetch.err /\ Len(res.trace) > 1) => res.err = fetchError
    /\ (out.op # "idle" /\ out.sme) => out.err

----------------------------------------------------------------------------
(* Claims about the sorters, checked under SpecSort.                       *)

C9_SameBucket ==
    /\ less.up # <<>>
    /\ less.down # <<>>
    /\ vs[1] # vs[2]
    /\ compareVersionType(namedHalf(vs[1]), namedHalf(vs[2])) = 0

\* two semver versions that are both releases or both prereleases
C9_SamePrereleaseStatus ==
    /\ namedHalf(vs[1]).t = "semver"
    /\ (Prerelease(namedHalf(vs[1])) = 0) <=> (Prerelease(namedHalf(vs[2])) = 0)

\* C9 as claimed: for two distinct versions l, r of one type bucket, l is
\* before r for the upgrade sorter if and only if r is before l for the
\* downgrade sorter.
C9_DirectionReverses ==
    C9_SameBucket => (less.up[1] <=> less.down[2])

\* C9 as amended: for two distinct versions l, r of one type bucket, l is
\* before r for the upgrade sorter if and only if r is before l for the
\* downgrade sorter when l and r are semver versions that are both releases
\* or both prereleases; otherwise (revisions, branches, plain versions, a
\* release and a prerelease) the two sorters order l and r the same way.
C9_DirectionReversesSemver ==
    C9_SameBucket =>
        IF C9_SamePrereleaseStatus
        THEN (less.up[1] <=> less.down[2]) /\ (less.up[2] <=> less.down[1])
        ELSE less.up = less.down

C9_Witness ==
    /\ C9_SameBucket
    /\ C9_SamePrereleaseStatus
    /\ IsPaired(vs[1])
    /\ Prerelease(namedHalf(vs[2])) > 0
    /\ less.up[1]
    /\ less.down[2]

\* a release A in vs[1] and a prerelease B in vs[2], bare or named halves
C10_ReleaseThenPrerelease ==
    /\ namedHalf(vs[1]).t = "semver"
    /\ namedHalf(vs[2]).t = "semver"
    /\ Prerelease(namedHalf(vs[1])) = 0
    /\ Prerelease(namedHalf(vs[2])) > 0

\* C10: a semver release A is ordered before a semver prerelease B by the
\* upgrade sorter and by the downgrade sorter, whatever their numeric order.
C10_ReleaseBeforePrerelease ==
    C10_ReleaseThenPrerelease =>
        /\ less.up # <<>> => less.up = <<TRUE, FALSE>>
        /\ less.down # <<>> => less.down = <<TRUE, FALSE>>

C10_Witness ==
    /\ C10_ReleaseThenPrerelease
    /\ LessThan(namedHalf(vs[1]), namedHalf(vs[2]))
    /\ IsPaired(vs[2])
    /\ less.up = <<TRUE, FALSE>>
    /\ less.down = <<TRUE, FALSE>>

====
